---- MODULE Spec2Model ----
(***************************************************************************)
(* Dock layout persistence and reconstruction (crates/ui/src/dock/panel.rs)*)
(*                                                                         *)
(* DockItemState is the persisted layout node, PanelRegistry the           *)
(* name-to-factory map, register_panel its only writer and                 *)
(* DockItemState::to_item the recursive reconstruction of a live DockItem. *)
(* A panic is modelled as the outcome of the call that raised it, with     *)
(* the state left as it was at the panicking line.                         *)
(*                                                                         *)
(* The module also covers the window Root (crates/ui/src/root.rs) with the *)
(* close handlers of the Drawer (drawer.rs), the popover window            *)
(* (popover.rs) and the PopupMenu (popup_menu.rs), each under a            *)
(* specification of its own.                                               *)
(***************************************************************************)
EXTENDS Integers, Sequences, FiniteSets, TLC

VARIABLES registry, regResult, state, item,
          focused, previous_focus_handle, active_drawer, active_modals,
          opened_from, handled,
          content_view, windows, window_id, tasks, next_window_id, last_input,
          menu_items, selected_index, menu_result

\* The dock layout, the registry and the outcome of the last calls on them.
dockVars == <<registry, regResult, state, item>>

\* The Root view of a window, the window's focus, and what the last handled
\* event did.  opened_from is a history variable: the focus each open drawer
\* or modal was opened from.
rootVars == <<focused, previous_focus_handle, active_drawer, active_modals,
              opened_from, handled>>

\* The popover trigger's element state, the popover windows of the
\* application, the global PopoverWindowState and the spawned tasks that have
\* not run yet.  last_input is a history variable: the last input handled.
popoverVars == <<content_view, windows, window_id, tasks, next_window_id, last_input>>

\* A PopupMenu as its builder left it, its selection, and the outcome of the
\* last action it handled.
menuVars == <<menu_items, selected_index, menu_result>>

vars == <<dockVars, rootVars, popoverVars, menuVars>>

(***************************************************************************)
(* Bounds of the model and the input domains.                              *)
(***************************************************************************)
\* Largest number of nodes of a layout tree.
MaxNodes == 3

\* Panel names that appear in layouts and registrations.
Names == {"editor", "terminal"}

\* Factory function pointers that can be registered.
Factories == {"make_a", "make_b"}

\* The owning dock area handed to to_item.
DockAreas == {"dock_area"}

\* The dock areas of an application with a second workspace.
Workspaces == {"dock_area", "side_dock_area"}

\* Option<T>: None is the empty sequence, Some(v) a one-element sequence.
None == <<>>

Some(v) == <<v>>

\* gpui::Axis as used by panel.rs.
Axis == {"Horizontal", "Vertical"}

(***************************************************************************)
(* DockItemInfo and its constructors.                                      *)
(***************************************************************************)
\* DockItemInfo::stack with the two axis codes exchanged.
stack_exchanged(sizes, axis) ==
    [kind |-> "stack", sizes |-> sizes, axis |-> IF axis = "Horizontal" THEN 1 ELSE 0]

stack(sizes, axis) ==
    [kind |-> "stack", sizes |-> sizes, axis |-> IF axis = "Horizontal" THEN 0 ELSE 1]

tabs(active_index) == [kind |-> "tabs", active_index |-> active_index]

custom(value) == [kind |-> "custom", value |-> value]

\* The layout infos layouts are drawn from: both tab indexes that matter for
\* up to two children, a one-size and a two-size stack, and a custom value.
Infos ==
    {tabs(0), tabs(1), stack(<<10>>, "Horizontal"), stack(<<10, 20>>, "Vertical"),
     custom("json")}

(***************************************************************************)
(* DockItemState.                                                          *)
(***************************************************************************)
DockItemState(panel_name, children, info) ==
    [panel_name |-> panel_name, children |-> children, info |-> info]

\* DockItemState::new with a wrong default tab.
DockItemState_new_second_tab(panel_name) == DockItemState(panel_name, <<>>, tabs(1))

DockItemState_new(panel_name) == DockItemState(panel_name, <<>>, tabs(0))

\* add_child putting the new child in front of the existing ones.
add_child_front(self, panel) == [self EXCEPT !.children = <<panel>> \o @]

add_child(self, panel) == [self EXCEPT !.children = Append(@, panel)]

RECURSIVE TreesOfSize(_)
RECURSIVE ForestsOfSize(_)
\* All DockItemState values with exactly n nodes.
TreesOfSize(n) ==
    IF n < 1 THEN {}
    ELSE LET forests == ForestsOfSize(n - 1)
         IN {DockItemState(p, cs, i) : p \in Names, cs \in forests, i \in Infos}

\* All child sequences with exactly m nodes in total.
ForestsOfSize(m) ==
    IF m = 0 THEN {<<>>}
    ELSE UNION {LET first == TreesOfSize(k)
                    rest == ForestsOfSize(m - k)
                IN {<<t>> \o r : t \in first, r \in rest} : k \in 1..m}

\* The layouts that can be loaded (DockItemState is Deserialize).
LayoutTrees ==
    LET forests == UNION {ForestsOfSize(m) : m \in 0..(MaxNodes - 1)}
    IN {DockItemState(p, cs, i) : p \in Names, cs \in forests, i \in Infos}

RECURSIVE NodeCount(_)
RECURSIVE SumCounts(_, _)
NodeCount(t) == 1 + SumCounts(t.children, 1)

SumCounts(cs, i) == IF i > Len(cs) THEN 0 ELSE NodeCount(cs[i]) + SumCounts(cs, i + 1)

(***************************************************************************)
(* PanelRegistry: HashMap<String, fn(..) -> Box<dyn PanelView>>.           *)
(***************************************************************************)
EmptyRegistry == [n \in {} |-> "make_a"]

\* HashMap::insert: the new map and the previous value of the key, if any.
HashMapInsert(items, key, value) ==
    [items |-> [k \in (DOMAIN items) \cup {key} |-> IF k = key THEN value ELSE items[k]],
     old |-> IF key \in DOMAIN items THEN Some(items[key]) ELSE None]

\* HashMap::get.
HashMapGet(items, key) == IF key \in DOMAIN items THEN Some(items[key]) ELSE None

\* register_panel: insert, then unwrap the previous value.
register_panel(panel_name, deserialize) ==
    LET ins == HashMapInsert(registry, panel_name, deserialize)
    IN /\ registry' = ins.items
       /\ regResult' = IF ins.old = None THEN "panic" ELSE "ok"
       /\ UNCHANGED <<state, item>>

(***************************************************************************)
(* The live DockItem (dock/mod.rs is not part of the sources): the two     *)
(* constructors to_item calls, as carriers of exactly their arguments.     *)
(***************************************************************************)
DockItem_split_with_sizes(axis, items, sizes, dock_area) ==
    [kind |-> "Split", axis |-> axis, items |-> items, sizes |-> sizes,
     dock_area |-> dock_area]

DockItem_tabs(items, active_ix, dock_area) ==
    [kind |-> "Tabs", items |-> items, active_ix |-> active_ix, dock_area |-> dock_area]

\* The Box<dyn PanelView> a registered factory returns for (dock_area, info).
PanelView(f, dock_area, info) == [factory |-> f, dock_area |-> dock_area, info |-> info]

(***************************************************************************)
(* DockItemState::to_item.  The result carries the panic message (None     *)
(* when the call returned), the returned DockItem and the calls made, in   *)
(* order, each with the path (child indexes from the root) of its node.    *)
(***************************************************************************)
Returned(it, log) == [panic |-> None, item |-> Some(it), log |-> log]

Panicked(msg, log) == [panic |-> Some(msg), item |-> None, log |-> log]

GetCall(path, name) == [op |-> "get", path |-> path, panel_name |-> name]

FactoryCall(path, view) == [op |-> "factory", path |-> path, view |-> view]

ComposeCall(op, path) == [op |-> op, path |-> path]

RECURSIVE to_item(_, _, _, _)
RECURSIVE map_children(_, _, _, _, _)
RECURSIVE map_children_skipping(_, _, _, _, _)
\* to_item with the children reconstructed before the node's own factory is
\* invoked.
to_item_children_first(self, path, dock_area, items) ==
    LET info == self.info
        f == HashMapGet(items, self.panel_name)
        get == <<GetCall(path, self.panel_name)>>
    IN IF f = None
       THEN Panicked("not registed", get)
       ELSE LET kids == map_children(self.children, 1, path, dock_area, items)
                view == PanelView(f[1], dock_area, info)
                log == get \o kids.log \o <<FactoryCall(path, view)>>
            IN IF kids.panic # None
               THEN Panicked(kids.panic[1], get \o kids.log)
               ELSE CASE info.kind = "stack" ->
                           Returned(DockItem_split_with_sizes(
                                        IF info.axis = 0 THEN "Horizontal" ELSE "Vertical",
                                        kids.items,
                                        [i \in DOMAIN info.sizes |-> Some(info.sizes[i])],
                                        dock_area),
                                    log \o <<ComposeCall("split_with_sizes", path)>>)
                      [] info.kind = "tabs" ->
                           Returned(DockItem_tabs(kids.items, Some(info.active_index),
                                                  dock_area),
                                    log \o <<ComposeCall("tabs", path)>>)
                      [] OTHER ->
                           Panicked("unreachable", log \o <<ComposeCall("unreachable", path)>>)

\* to_item handing every factory the layout info of a new leaf instead of the
\* node's own.
to_item_default_info(self, path, dock_area, items) ==
    LET info == self.info
        f == HashMapGet(items, self.panel_name)
        get == <<GetCall(path, self.panel_name)>>
    IN IF f = None
       THEN Panicked("not registed", get)
       ELSE LET view == PanelView(f[1], dock_area, tabs(0))
                called == get \o <<FactoryCall(path, view)>>
                kids == map_children(self.children, 1, path, dock_area, items)
                log == called \o kids.log
            IN IF kids.panic # None
               THEN Panicked(kids.panic[1], log)
               ELSE CASE info.kind = "stack" ->
                           Returned(DockItem_split_with_sizes(
                                        IF info.axis = 0 THEN "Horizontal" ELSE "Vertical",
                                        kids.items,
                                        [i \in DOMAIN info.sizes |-> Some(info.sizes[i])],
                                        dock_area),
                                    log \o <<ComposeCall("split_with_sizes", path)>>)
                      [] info.kind = "tabs" ->
                           Returned(DockItem_tabs(kids.items, Some(info.active_index),
                                                  dock_area),
                                    log \o <<ComposeCall("tabs", path)>>)
                      [] OTHER ->
                           Panicked("unreachable", log \o <<ComposeCall("unreachable", path)>>)

to_item(self, path, dock_area, items) ==
    LET info == self.info
        f == HashMapGet(items, self.panel_name)
        get == <<GetCall(path, self.panel_name)>>
    IN IF f = None
       THEN Panicked("not registed", get)
       ELSE LET view == PanelView(f[1], dock_area, info)
                called == get \o <<FactoryCall(path, view)>>
                kids == map_children(self.children, 1, path, dock_area, items)
                log == called \o kids.log
            IN IF kids.panic # None
               THEN Panicked(kids.panic[1], log)
               ELSE CASE info.kind = "stack" ->
                           Returned(DockItem_split_with_sizes(
                                        IF info.axis = 0 THEN "Horizontal" ELSE "Vertical",
                                        kids.items,
                                        [i \in DOMAIN info.sizes |-> Some(info.sizes[i])],
                                        dock_area),
                                    log \o <<ComposeCall("split_with_sizes", path)>>)
                      [] info.kind = "tabs" ->
                           Returned(DockItem_tabs(kids.items, Some(info.active_index),
                                                  dock_area),
                                    log \o <<ComposeCall("tabs", path)>>)
                      [] OTHER ->
                           Panicked("unreachable", log \o <<ComposeCall("unreachable", path)>>)

\* self.children.iter().map(|child| child.to_item(..)).collect(): left to
\* right, a panic in one child ends the iteration.
\* map_children that drops a child whose reconstruction panicked and goes on
\* with the next one.
map_children_skipping(children, i, path, dock_area, items) ==
    IF i > Len(children)
    THEN [panic |-> None, items |-> <<>>, log |-> <<>>]
    ELSE LET r == to_item(children[i], Append(path, i), dock_area, items)
             rest == map_children_skipping(children, i + 1, path, dock_area, items)
         IN [panic |-> rest.panic,
             items |-> (IF r.panic # None THEN <<>> ELSE <<r.item[1]>>) \o rest.items,
             log |-> r.log \o rest.log]

map_children(children, i, path, dock_area, items) ==
    IF i > Len(children)
    THEN [panic |-> None, items |-> <<>>, log |-> <<>>]
    ELSE LET r == to_item(children[i], Append(path, i), dock_area, items)
         IN IF r.panic # None
            THEN [panic |-> r.panic, items |-> <<>>, log |-> r.log]
            ELSE LET rest == map_children(children, i + 1, path, dock_area, items)
                 IN [panic |-> rest.panic,
                     items |-> <<r.item[1]>> \o rest.items,
                     log |-> r.log \o rest.log]

\* No to_item call has been made yet.
NoItem == [panic |-> None, item |-> None, log |-> <<>>]

\* to_item taking the root's factory out of the registry (remove for get).
ToItem_removing(dock_area) ==
    /\ item' = to_item(state, <<>>, dock_area, registry)
    /\ registry' = [n \in (DOMAIN registry) \ {state.panel_name} |-> registry[n]]
    /\ UNCHANGED <<regResult, state>>

\* A caller reconstructs the loaded layout.
ToItem(dock_area) ==
    /\ item' = to_item(state, <<>>, dock_area, registry)
    /\ UNCHANGED <<registry, regResult, state>>

(***************************************************************************)
(* Root (crates/ui/src/root.rs): the active drawer, the active modals and  *)
(* the focus handle to go back to, with the close handlers of a rendered   *)
(* Drawer (crates/ui/src/drawer.rs).                                       *)
(***************************************************************************)
\* Largest ModalId in use.
MaxModals == 2

ModalIds == 1..MaxModals

\* Focus handles of the views of the window.
FocusHandles == {"page", "field"}

\* Drawer builders; each builds a Drawer that has an on_close listener.
DrawerBuilds == {"settings", "help"}

\* Modal builders: what the builder configures on the Modal it is given.
ModalBuilds == {[title |-> "confirm", overlay |-> TRUE],
                [title |-> "palette", overlay |-> FALSE]}

\* BTreeMap::new().
EmptyModals == [id \in {} |-> [title |-> "confirm", overlay |-> TRUE]]

BTreeMapRemove(map, key) == [k \in (DOMAIN map) \ {key} |-> map[k]]

BTreeMapInsert(map, key, value) ==
    [k \in (DOMAIN map) \cup {key} |-> IF k = key THEN value ELSE map[k]]

\* The keys of a BTreeMap in iteration order (ascending).
BTreeMapKeys(map) ==
    CHOOSE s \in [1..Cardinality(DOMAIN map) -> DOMAIN map] :
        \A i, j \in DOMAIN s : i < j => s[i] < s[j]

\* Root::new, and a window in which no view is focused yet.
RootInit ==
    /\ focused = None
    /\ previous_focus_handle = None
    /\ active_drawer = None
    /\ active_modals = EmptyModals
    /\ opened_from = [drawer |-> None, modals |-> EmptyModals]
    /\ handled = [event |-> "none", calls |-> <<>>]

\* A call made while an event is handled, with the drawer that was active
\* when the call was made.
Call(name, drawer) == [call |-> name, active_drawer |-> drawer]

Handled(event, calls) == [event |-> event, calls |-> calls]

has_active_drawer == active_drawer # None

has_active_modal == Cardinality(DOMAIN active_modals) > 0

\* Root::focus_back: previous_focus_handle.take(), and focus it if there was one.
focus_back ==
    /\ previous_focus_handle' = None
    /\ focused' = IF previous_focus_handle # None THEN previous_focus_handle ELSE focused

open_drawer(build) ==
    /\ previous_focus_handle' = focused
    /\ active_drawer' = Some(build)
    /\ opened_from' = [opened_from EXCEPT !.drawer = Some(focused)]
    /\ UNCHANGED <<focused, active_modals>>

\* close_drawer that goes back to the previous focus and keeps the drawer.
close_drawer_keeping ==
    /\ active_drawer' = active_drawer
    /\ focus_back
    /\ opened_from' = [opened_from EXCEPT !.drawer = None]
    /\ UNCHANGED active_modals

close_drawer ==
    /\ active_drawer' = None
    /\ focus_back
    /\ opened_from' = [opened_from EXCEPT !.drawer = None]
    /\ UNCHANGED active_modals

open_modal(id, build) ==
    /\ previous_focus_handle' = focused
    /\ active_modals' = BTreeMapInsert(BTreeMapRemove(active_modals, id), id, build)
    /\ opened_from' = [opened_from EXCEPT
                          !.modals = BTreeMapInsert(BTreeMapRemove(@, id), id, focused)]
    /\ UNCHANGED <<focused, active_drawer>>

\* close_modal that removes every modal up to and including id.
close_modal_upto(id) ==
    /\ active_modals' = [k \in {j \in DOMAIN active_modals : j > id} |-> active_modals[k]]
    /\ focus_back
    /\ opened_from' = [opened_from EXCEPT
                          !.modals = [k \in {j \in DOMAIN @ : j > id} |-> @[k]]]
    /\ UNCHANGED active_drawer

close_modal(id) ==
    /\ active_modals' = BTreeMapRemove(active_modals, id)
    /\ focus_back
    /\ opened_from' = [opened_from EXCEPT !.modals = BTreeMapRemove(@, id)]
    /\ UNCHANGED active_drawer

close_all_modals ==
    /\ active_modals' = EmptyModals
    /\ focus_back
    /\ opened_from' = [opened_from EXCEPT !.modals = EmptyModals]
    /\ UNCHANGED active_drawer

\* The calls of the ContextModal methods by the application.
OpenDrawer(build) ==
    /\ open_drawer(build)
    /\ handled' = Handled("open_drawer", <<Call("open_drawer", active_drawer)>>)

CloseDrawer ==
    /\ close_drawer
    /\ handled' = Handled("close_drawer", <<Call("close_drawer", active_drawer)>>)

OpenModal(id, build) ==
    /\ open_modal(id, build)
    /\ handled' = Handled("open_modal", <<Call("open_modal", active_drawer)>>)

CloseModal(id) ==
    /\ close_modal(id)
    /\ handled' = Handled("close_modal", <<Call("close_modal", active_drawer)>>)

CloseAllModals ==
    /\ close_all_modals
    /\ handled' = Handled("close_all_modals", <<Call("close_all_modals", active_drawer)>>)

\* The user moves the focus to a view of the window.
Focus(handle) ==
    /\ focused' = Some(handle)
    /\ handled' = Handled("focus", <<>>)
    /\ UNCHANGED <<previous_focus_handle, active_drawer, active_modals, opened_from>>

\* A close handler that removes the drawer first and tells the listener after.
drawer_close_listener_last(event) ==
    /\ close_drawer
    /\ handled' = Handled(event, <<Call("close_drawer", active_drawer),
                                   Call("on_close", active_drawer')>>)

\* The body of both close handlers of a rendered Drawer: on_close(..), then
\* cx.close_drawer().  The listener does not touch the Root.
drawer_close(event) ==
    /\ close_drawer
    /\ handled' = Handled(event, <<Call("on_close", active_drawer),
                                   Call("close_drawer", active_drawer)>>)

\* Left mouse-down on the overlay of the rendered drawer.
OverlayMouseDown ==
    /\ has_active_drawer
    /\ drawer_close("overlay_mouse_down")

\* Click on the close button of the rendered drawer.
CloseButtonClick ==
    /\ has_active_drawer
    /\ drawer_close("close_button_click")

(***************************************************************************)
(* Root::render_modal_layer.  Modal is defined in modal.rs, which is not   *)
(* part of the sources: a new Modal has an overlay that is visible, and    *)
(* has_overlay reports the overlay the builder has left configured.        *)
(***************************************************************************)
\* Offset between two consecutive modals, in pixels.
OffsetStep == 16

Modal_new(id) == [id |-> id, overlay |-> TRUE, overlay_visible |-> TRUE, offset_top |-> 0]

Modal_has_overlay(modal) == modal.overlay

\* builder(modal, cx)
Build(build, modal) == [modal EXCEPT !.overlay = build.overlay]

RECURSIVE render_modals_all_visible(_, _, _, _)
RECURSIVE render_modals(_, _, _, _)
\* The closure of render_modal_layer without the hiding of later overlays.
render_modals_all_visible(modals, ids, i, has_overlay) ==
    IF i > Len(ids)
    THEN <<>>
    ELSE LET modal == [Build(modals[ids[i]], Modal_new(ids[i])) EXCEPT
                           !.offset_top = (i - 1) * OffsetStep]
         IN <<modal>> \o render_modals_all_visible(modals, ids, i + 1,
                             has_overlay \/ Modal_has_overlay(modal))

\* The closure mapped over active_modals.iter().enumerate(), from the i-th
\* entry on, with the has_overlay flag carried from the entries before it.
render_modals(modals, ids, i, has_overlay) ==
    IF i > Len(ids)
    THEN <<>>
    ELSE LET built == [Build(modals[ids[i]], Modal_new(ids[i])) EXCEPT
                           !.offset_top = (i - 1) * OffsetStep]
             modal == IF has_overlay
                      THEN [built EXCEPT !.overlay_visible = FALSE]
                      ELSE built
         IN <<modal>> \o render_modals(modals, ids, i + 1,
                             has_overlay \/ Modal_has_overlay(modal))

render_modal_layer ==
    IF DOMAIN active_modals = {}
    THEN None
    ELSE Some(render_modals(active_modals, BTreeMapKeys(active_modals), 1, FALSE))

(***************************************************************************)
(* Popover (crates/ui/src/popover.rs): the trigger's element state, the    *)
(* global PopoverWindowState and the popover windows.  open_popover spawns *)
(* the task that opens the window; the task runs later, at any point.      *)
(***************************************************************************)
\* Largest number of popover windows opened in a run.
MaxWindows == 4

\* Content views the trigger builds.
PopoverContents == {"menu"}

\* popover::init, and a trigger that has not been clicked.
PopoverInit ==
    /\ content_view = None
    /\ windows = {}
    /\ window_id = None
    /\ tasks = 0
    /\ next_window_id = 1
    /\ last_input = "none"

\* PopoverWindowState::existing_window: the open window whose id is recorded.
existing_window ==
    IF window_id # None /\ window_id[1] \in windows THEN window_id ELSE None

\* PopoverWindowState::close_window
close_window ==
    IF existing_window # None
    THEN /\ windows' = windows \ {existing_window[1]}
         /\ window_id' = None
    ELSE UNCHANGED <<windows, window_id>>

close_popover == close_window

\* PopoverWindow::open_popover: close the recorded window, spawn the task.
open_popover ==
    /\ close_window
    /\ tasks' = tasks + 1

\* Paint of the Popover element when the trigger has left a content view.
Paint ==
    /\ content_view # None
    /\ (next_window_id - 1) + tasks < MaxWindows
    /\ content_view' = None
    /\ open_popover
    /\ UNCHANGED <<next_window_id, last_input>>

\* A spawned task runs: it opens the window and records its id.
OpenWindowTask ==
    /\ tasks > 0
    /\ tasks' = tasks - 1
    /\ windows' = windows \cup {next_window_id}
    /\ window_id' = Some(next_window_id)
    /\ next_window_id' = next_window_id + 1
    /\ UNCHANGED <<content_view, last_input>>

\* Mouse-down on the trigger: the parent window's dismiss listener runs first,
\* then the trigger's listener builds the content view and stores it.
TriggerMouseDown ==
    /\ \E view \in PopoverContents : content_view' = Some(view)
    /\ close_popover
    /\ last_input' = "trigger_mouse_down"
    /\ UNCHANGED <<tasks, next_window_id>>

\* Mouse-down elsewhere in the parent window.
ParentMouseDown ==
    /\ content_view' = None
    /\ close_popover
    /\ last_input' = "parent_mouse_down"
    /\ UNCHANGED <<tasks, next_window_id>>

\* The content view shown in a popover window emits DismissEvent.
ContentDismissed ==
    /\ windows # {}
    /\ content_view' = None
    /\ close_popover
    /\ last_input' = "dismiss_event"
    /\ UNCHANGED <<tasks, next_window_id>>

\* Left mouse-down on the content of a popover window.
PopoverMouseDown ==
    /\ windows # {}
    /\ close_window
    /\ last_input' = "popover_mouse_down"
    /\ UNCHANGED <<content_view, tasks, next_window_id>>

(***************************************************************************)
(* PopupMenu (crates/ui/src/popup_menu.rs): the items the builder pushed,  *)
(* the selection, and the key and click handlers.  selected_index is a     *)
(* usize; menu_items are indexed from 0 in the source and from 1 here.     *)
(***************************************************************************)
\* Largest number of items of a menu.
MaxItems == 3

\* Largest selected_index that the key handlers are followed to.
MaxIndex == 4

\* usize::MAX, standing at the largest integer of the model checker.
UsizeMax == 2147483647

\* The variants of PopupMenuItem.
ItemKinds == {"Item", "SubMenu", "Separator"}

\* The menus a builder can leave: any mix of the variants.
Menus == UNION {[1..n -> ItemKinds] : n \in 0..MaxItems}

\* No menu has been built.
MenuIdle ==
    /\ menu_items = <<>>
    /\ selected_index = None
    /\ menu_result = "none"

\* PopupMenuItem::is_clickable
is_clickable(menu_item) == menu_item # "Separator"

\* PopupMenu::clickable_menu_items: (index, item) pairs, indices from 0.
clickable_menu_items(items) ==
    {<<i - 1, items[i]>> : i \in {j \in DOMAIN items : is_clickable(items[j])}}

\* Vec::get
VecGet(items, index) == IF index < Len(items) THEN Some(items[index + 1]) ELSE None

\* The menu is shown: it has not been dismissed and no handler has panicked.
MenuShown == menu_result \notin {"dismissed", "panic"}

\* PopupMenu::dismiss: the DismissEvent closes the menu.
dismiss == menu_result' = "dismissed"

\* PopupMenu::confirm on the selection that will be in place when it runs.
confirm(selected) ==
    IF selected # None /\ VecGet(menu_items, selected[1]) = Some("Item")
    THEN dismiss
    ELSE menu_result' = "confirm"

\* The Confirm action (enter).
Confirm ==
    /\ MenuShown
    /\ confirm(selected_index)
    /\ UNCHANGED <<menu_items, selected_index>>

\* The Dismiss action (escape), a mouse-down outside the menu, or a blur.
Dismiss ==
    /\ MenuShown
    /\ dismiss
    /\ UNCHANGED <<menu_items, selected_index>>

\* PopupMenu::on_click of the list item at index ix; a separator is rendered
\* disabled and has no click handler.
on_click(ix) ==
    /\ MenuShown
    /\ VecGet(menu_items, ix) # None
    /\ is_clickable(VecGet(menu_items, ix)[1])
    /\ selected_index' = Some(ix)
    /\ confirm(Some(ix))
    /\ UNCHANGED menu_items

\* PopupMenu::select_next.  index + 1 overflows at usize::MAX: a build with
\* overflow checks panics there, a build without them wraps to 0.
select_next ==
    LET count == Cardinality(clickable_menu_items(menu_items))
    IN /\ MenuShown
       /\ UNCHANGED menu_items
       /\ IF count = 0
          THEN selected_index' = selected_index /\ menu_result' = "select_next"
          ELSE IF selected_index = None
          THEN selected_index' = Some(0) /\ menu_result' = "select_next"
          ELSE IF selected_index[1] = count - 1
          THEN selected_index' = Some(0) /\ menu_result' = "select_next"
          ELSE IF selected_index[1] = UsizeMax
          THEN \/ selected_index' = selected_index /\ menu_result' = "panic"
               \/ selected_index' = Some(0) /\ menu_result' = "select_next"
          ELSE /\ selected_index[1] + 1 <= MaxIndex
               /\ selected_index' = Some(selected_index[1] + 1)
               /\ menu_result' = "select_next"

\* PopupMenu::select_prev.  index - 1 underflows at 0: a build with overflow
\* checks panics there, a build without them wraps to usize::MAX.
select_prev ==
    LET count == Cardinality(clickable_menu_items(menu_items))
    IN /\ MenuShown
       /\ UNCHANGED menu_items
       /\ IF count = 0
          THEN selected_index' = selected_index /\ menu_result' = "select_prev"
          ELSE IF selected_index = None
          THEN selected_index' = Some(count - 1) /\ menu_result' = "select_prev"
          ELSE IF selected_index[1] = count - 1
          THEN selected_index' = Some(0) /\ menu_result' = "select_prev"
          ELSE IF selected_index[1] = 0
          THEN \/ selected_index' = selected_index /\ menu_result' = "panic"
               \/ selected_index' = Some(UsizeMax) /\ menu_result' = "select_prev"
          ELSE /\ selected_index[1] - 1 <= MaxIndex
               /\ selected_index' = Some(selected_index[1] - 1)
               /\ menu_result' = "select_prev"

(***************************************************************************)
(* Specification of registration and reconstruction: a layout has been     *)
(* loaded, the registry starts empty.                                      *)
(***************************************************************************)
Init ==
    /\ registry = EmptyRegistry
    /\ regResult = "none"
    /\ state \in LayoutTrees
    /\ item = NoItem
    /\ RootInit
    /\ PopoverInit
    /\ MenuIdle

\* Panels are registered at startup, before the layout is reconstructed.
Startup == item = NoItem /\ \E n \in Names, f \in Factories : register_panel(n, f)

Reconstruct == \E d \in DockAreas : ToItem(d)

Next ==
    \/ Startup /\ UNCHANGED <<rootVars, popoverVars, menuVars>>
    \/ Reconstruct /\ UNCHANGED <<rootVars, popoverVars, menuVars>>

Spec == Init /\ [][Next]_vars

(***************************************************************************)
(* Specification of the registry alone: registrations and reconstructions  *)
(* of a small layout interleave in any order.                              *)
(***************************************************************************)
InitRegistry ==
    /\ registry = EmptyRegistry
    /\ regResult = "none"
    /\ state \in {t \in LayoutTrees : NodeCount(t) < MaxNodes}
    /\ item = NoItem
    /\ RootInit
    /\ PopoverInit
    /\ MenuIdle

Register == \E n \in Names, f \in Factories : register_panel(n, f)

\* A caller reconstructs the loaded layout for any of the workspaces.
ReconstructIn == \E d \in Workspaces : ToItem(d)

NextRegistry ==
    \/ Register /\ UNCHANGED <<rootVars, popoverVars, menuVars>>
    \/ ReconstructIn /\ UNCHANGED <<rootVars, popoverVars, menuVars>>

SpecRegistry == InitRegistry /\ [][NextRegistry]_vars

(***************************************************************************)
(* Specification of the construction of a DockItemState by a caller:       *)
(* DockItemState::new, then add_child.                                     *)
(***************************************************************************)
\* No DockItemState has been constructed yet.
NoState == DockItemState("", <<>>, [kind |-> "none"])

New(panel_name) ==
    /\ state' = DockItemState_new(panel_name)
    /\ UNCHANGED <<registry, regResult, item>>

AddChild(panel) ==
    /\ state # NoState
    /\ NodeCount(state) + NodeCount(panel) <= MaxNodes
    /\ state' = add_child(state, panel)
    /\ UNCHANGED <<registry, regResult, item>>

\* The caller starts without a state, or from a leaf it has loaded.
InitBuild ==
    /\ registry = EmptyRegistry
    /\ regResult = "none"
    /\ state \in {NoState} \cup TreesOfSize(1)
    /\ item = NoItem
    /\ RootInit
    /\ PopoverInit
    /\ MenuIdle

Construct == \E n \in Names : New(n)

\* The child is any DockItemState that still fits the node bound.
Append_child ==
    \E k \in 1..(MaxNodes - NodeCount(state)) : \E panel \in TreesOfSize(k) : AddChild(panel)

NextBuild ==
    \/ Construct /\ UNCHANGED <<rootVars, popoverVars, menuVars>>
    \/ Append_child /\ UNCHANGED <<rootVars, popoverVars, menuVars>>

SpecBuild == InitBuild /\ [][NextBuild]_vars

(***************************************************************************)
(* Specification of a window's Root: the application opens and closes      *)
(* drawers and modals, the user moves the focus and uses the close         *)
(* handlers of the rendered drawer.  No layout is loaded.                  *)
(***************************************************************************)
DockIdle ==
    /\ registry = EmptyRegistry
    /\ regResult = "none"
    /\ state = NoState
    /\ item = NoItem

InitRoot == DockIdle /\ RootInit /\ PopoverInit /\ MenuIdle

NextRoot ==
    \/ (\E build \in DrawerBuilds : OpenDrawer(build)) /\ UNCHANGED <<dockVars, popoverVars, menuVars>>
    \/ CloseDrawer /\ UNCHANGED <<dockVars, popoverVars, menuVars>>
    \/ (\E id \in ModalIds, build \in ModalBuilds : OpenModal(id, build))
           /\ UNCHANGED <<dockVars, popoverVars, menuVars>>
    \/ (\E id \in ModalIds : CloseModal(id)) /\ UNCHANGED <<dockVars, popoverVars, menuVars>>
    \/ CloseAllModals /\ UNCHANGED <<dockVars, popoverVars, menuVars>>
    \/ (\E handle \in FocusHandles : Focus(handle)) /\ UNCHANGED <<dockVars, popoverVars, menuVars>>
    \/ OverlayMouseDown /\ UNCHANGED <<dockVars, popoverVars, menuVars>>
    \/ CloseButtonClick /\ UNCHANGED <<dockVars, popoverVars, menuVars>>

SpecRoot == InitRoot /\ [][NextRoot]_vars

(***************************************************************************)
(* Specification of the popover of one trigger: inputs, paints and the     *)
(* spawned window-opening tasks interleave freely.                         *)
(***************************************************************************)
InitPopover == DockIdle /\ RootInit /\ PopoverInit /\ MenuIdle

NextPopover ==
    \/ TriggerMouseDown /\ UNCHANGED <<dockVars, rootVars, menuVars>>
    \/ Paint /\ UNCHANGED <<dockVars, rootVars, menuVars>>
    \/ OpenWindowTask /\ UNCHANGED <<dockVars, rootVars, menuVars>>
    \/ ParentMouseDown /\ UNCHANGED <<dockVars, rootVars, menuVars>>
    \/ ContentDismissed /\ UNCHANGED <<dockVars, rootVars, menuVars>>
    \/ PopoverMouseDown /\ UNCHANGED <<dockVars, rootVars, menuVars>>

SpecPopover == InitPopover /\ [][NextPopover]_vars

(***************************************************************************)
(* Specification of a PopupMenu: the builder has pushed its items, then    *)
(* the user presses keys and clicks items.                                 *)
(***************************************************************************)
\* PopupMenu::build followed by the builder.
InitMenu ==
    /\ DockIdle /\ RootInit /\ PopoverInit
    /\ menu_items \in Menus
    /\ selected_index = None
    /\ menu_result = "none"

NextMenu ==
    \/ select_next /\ UNCHANGED <<dockVars, rootVars, popoverVars>>
    \/ select_prev /\ UNCHANGED <<dockVars, rootVars, popoverVars>>
    \/ (\E ix \in 0..(MaxItems - 1) : on_click(ix)) /\ UNCHANGED <<dockVars, rootVars, popoverVars>>
    \/ Confirm /\ UNCHANGED <<dockVars, rootVars, popoverVars>>
    \/ Dismiss /\ UNCHANGED <<dockVars, rootVars, popoverVars>>

SpecMenu == InitMenu /\ [][NextMenu]_vars

(***************************************************************************)
(* Dumping a live DockItem back into a DockItemState (dock/mod.rs is not   *)
(* part of the sources).  Each container reports its own layout info and   *)
(* its children's dumps.  A DockItem as to_item builds it holds no panel   *)
(* handle, so there is no panel whose dump could supply a panel_name.      *)
(***************************************************************************)
NoPanelName == ""

RECURSIVE dump(_)
dump(it) ==
    DockItemState(
        NoPanelName,
        [i \in DOMAIN it.items |-> dump(it.items[i])],
        IF it.kind = "Split"
        THEN stack([i \in DOMAIN it.sizes |-> it.sizes[i][1]], it.axis)
        ELSE tabs(it.active_ix[1]))

(***************************************************************************)
(* Vocabulary of the properties: nodes of a layout by path, pre-order.     *)
(***************************************************************************)
RECURSIVE NodeAt(_, _)
NodeAt(t, path) == IF path = <<>> THEN t ELSE NodeAt(t.children[Head(path)], Tail(path))

RECURSIVE PreOrder(_, _)
RECURSIVE PreOrderFrom(_, _, _)
\* The paths of the nodes of t, parent before children, children left to right.
PreOrder(t, path) == <<path>> \o PreOrderFrom(t.children, 1, path)

PreOrderFrom(cs, i, path) ==
    IF i > Len(cs) THEN <<>>
    ELSE PreOrder(cs[i], Append(path, i)) \o PreOrderFrom(cs, i + 1, path)

Paths(t) == LET po == PreOrder(t, <<>>) IN {po[i] : i \in DOMAIN po}

\* p is a proper ancestor of q.
IsAncestor(p, q) == Len(p) < Len(q) /\ SubSeq(q, 1, Len(p)) = p

\* Positions, in pre-order, of the nodes whose panel_name is not registered.
UnregisteredAt(t, items) ==
    LET po == PreOrder(t, <<>>)
    IN {i \in DOMAIN po : NodeAt(t, po[i]).panel_name \notin DOMAIN items}

Min(S) == CHOOSE x \in S : \A y \in S : x <= y

\* The paths of the nodes whose factory was invoked.
FactoryPaths(log) == {log[i].path : i \in {j \in DOMAIN log : log[j].op = "factory"}}

\* The layout invariants of a node: sizes match children, tab index in range.
ValidNode(n) ==
    CASE n.info.kind = "stack" -> Len(n.info.sizes) = Len(n.children)
      [] n.info.kind = "tabs" ->
            \/ n.info.active_index < Len(n.children)
            \/ n.children = <<>> /\ n.info.active_index = 0
      [] OTHER -> TRUE

ValidLayout(t, items) ==
    \A p \in Paths(t) : NodeAt(t, p).panel_name \in DOMAIN items /\ ValidNode(NodeAt(t, p))

\* A leaf as DockItemState::new builds it, with a registered name.
IsRegisteredLeaf(n, items) ==
    n.panel_name \in DOMAIN items /\ n.children = <<>> /\ n.info = tabs(0)

LeafChildren(t, items) == \A i \in DOMAIN t.children : IsRegisteredLeaf(t.children[i], items)

(***************************************************************************)
(* Properties.  In Spec no registration follows a reconstruction, so       *)
(* `registry` is the registry the recorded to_item call has read.          *)
(***************************************************************************)

\* C1: round trip. For every valid layout (all names registered, sizes
\* matching children, tab index in range) reconstruction returns a live
\* item whose dump is structurally equal to the layout.
C1_RoundTrip ==
    (item # NoItem /\ ValidLayout(state, registry))
        => (item.item # None /\ dump(item.item[1]) = state)

\* C2: registering a name that is not yet in the registry returns normally,
\* and a lookup of that name then yields exactly the registered factory.
C2_FirstRegistrationSucceeds ==
    [][\A n \in Names, f \in Factories :
          (n \notin DOMAIN registry /\ register_panel(n, f))
              => (regResult' = "ok" /\ HashMapGet(registry', n) = Some(f))]_vars

\* C3: registering a name that is already in the registry fails; the call
\* never completes as a success.
C3_DuplicateRegistrationFails ==
    [][\A n \in Names, f \in Factories :
          (n \in DOMAIN registry /\ register_panel(n, f)) => regResult' = "panic"]_vars

\* C4 as claimed: when some node of the layout is unregistered,
\* reconstruction fails with the unknown-panel-type error, the registry is
\* unchanged and no factory has been run.
C4_NoFactoryRunBeforeFailure ==
    [][\A d \in DockAreas :
          (ToItem(d) /\ UnregisteredAt(state, registry) # {})
              => /\ item'.panic = Some("not registed")
                 /\ registry' = registry
                 /\ FactoryPaths(item'.log) = {}]_vars

\* C4 as amended: when some node of the layout is unregistered,
\* reconstruction fails and returns no item, the registry is unchanged, and
\* no factory is run for the first unregistered node (in pre-order) or any
\* node after it.  The failure is the unknown-panel-type error, reached
\* after the factories of exactly the nodes that precede that node in
\* pre-order have run, unless a Custom node that precedes it and is not one
\* of its ancestors is composed first and hits the unreachable branch.
C4_FailsAtFirstUnregistered ==
    [][\A d \in DockAreas :
          (ToItem(d) /\ UnregisteredAt(state, registry) # {})
              => LET po == PreOrder(state, <<>>)
                     u == Min(UnregisteredAt(state, registry))
                     before == {po[i] : i \in 1..(u - 1)}
                     customFirst ==
                         \E i \in 1..(u - 1) :
                             /\ NodeAt(state, po[i]).info.kind = "custom"
                             /\ ~IsAncestor(po[i], po[u])
                 IN /\ item'.panic # None
                    /\ item'.item = None
                    /\ registry' = registry
                    /\ FactoryPaths(item'.log) \subseteq before
                    /\ ~customFirst =>
                           /\ item'.panic = Some("not registed")
                           /\ FactoryPaths(item'.log) = before
                    /\ customFirst => item'.panic = Some("unreachable")]_vars

\* C4 witness: a descendant is unregistered, the lookup failed, and the
\* factories of the nodes before it had already run.
C4_Witness ==
    /\ item.panic = Some("not registed")
    /\ FactoryPaths(item.log) # {}
    /\ state.panel_name \in DOMAIN registry

\* C5: a Split node whose number of sizes differs from its number of
\* children is never turned into a live item; when the two are equal (and
\* the children are registered leaves) the item is built and child i gets
\* sizes[i].
C5_SplitSizesChecked ==
    (item # NoItem /\ state.info.kind = "stack")
        => /\ Len(state.info.sizes) # Len(state.children) => item.item = None
           /\ (Len(state.info.sizes) = Len(state.children)
                   /\ state.panel_name \in DOMAIN registry
                   /\ LeafChildren(state, registry))
                  => /\ item.item # None
                     /\ Len(item.item[1].items) = Len(state.children)
                     /\ \A i \in DOMAIN state.children :
                            item.item[1].sizes[i] = Some(state.info.sizes[i])

\* C6: a Tabs node with N > 0 children and active_index >= N either fails
\* or is clamped, so the live container never has an active index >= N;
\* with the index in range (and registered leaf children) the item is built
\* with that index active.
C6_TabsIndexChecked ==
    (item # NoItem /\ state.info.kind = "tabs" /\ Len(state.children) > 0)
        => /\ state.info.active_index >= Len(state.children)
                  => \/ item.item = None
                     \/ item.item[1].active_ix[1] < Len(state.children)
           /\ (state.info.active_index < Len(state.children)
                   /\ state.panel_name \in DOMAIN registry
                   /\ LeafChildren(state, registry))
                  => /\ item.item # None
                     /\ item.item[1].active_ix = Some(state.info.active_index)

\* C7: reconstruction of a layout that contains a Custom node fails
\* explicitly; the unreachable branch of the match is never reached.
C7_CustomFailsExplicitly ==
    (item # NoItem /\ \E p \in Paths(state) : NodeAt(state, p).info.kind = "custom")
        => /\ item.item = None
           /\ item.panic # Some("unreachable")
           /\ \A i \in DOMAIN item.log : item.log[i].op # "unreachable"

\* C8: a Tabs node with N registered leaf children and an in-range
\* active_index becomes a live tabbed container that holds exactly the N
\* panel handles returned by the children's factories, in child order, with
\* active_index as the active tab.
C8_TabsHoldsChildrenPanels ==
    (/\ item # NoItem
     /\ state.info.kind = "tabs"
     /\ state.panel_name \in DOMAIN registry
     /\ LeafChildren(state, registry)
     /\ state.info.active_index < Len(state.children))
        => /\ item.item # None
           /\ item.item[1].kind = "Tabs"
           /\ item.item[1].active_ix = Some(state.info.active_index)
           /\ Len(item.item[1].items) = Len(state.children)
           /\ \A i \in DOMAIN state.children :
                  item.item[1].items[i] =
                      PanelView(registry[state.children[i].panel_name],
                                item.item[1].dock_area, state.children[i].info)

\* C9: the registry is read-only for reconstruction: every step that
\* changes the name-to-factory map is a register_panel call.
C9_OnlyRegisterPanelWritesRegistry ==
    [][registry' # registry
          => \E n \in Names, f \in Factories : register_panel(n, f)]_vars

\* C9 witness: a reconstruction has returned an item and, later, a
\* registration has replaced the factory it had looked up.
C9_Witness ==
    /\ item.item # None
    /\ regResult = "ok"
    /\ \E i \in DOMAIN item.log :
           /\ item.log[i].op = "factory"
           /\ item.log[i].view.factory # registry[NodeAt(state, item.log[i].path).panel_name]

\* C10: DockItemState::new(name) is a leaf named name, without children,
\* whose layout info is Tabs with active_index 0.
C10_NewIsDefaultLeaf ==
    [][\A n \in Names :
          New(n) => /\ state'.panel_name = n
                    /\ state'.children = <<>>
                    /\ state'.info = [kind |-> "tabs", active_index |-> 0]]_vars

\* C10 witness: a state has been constructed and nothing appended to it.
C10_Witness == state # NoState /\ state.panel_name = "terminal" /\ Len(state.children) = 0

\* C11: add_child appends the given state as the last child and checks
\* nothing: the earlier children keep their order, the new child comes last,
\* and the parent's panel_name and info are unchanged, whatever the parent's
\* info says about sizes or the active index.
C11_AddChildAppends ==
    [][\A k \in 1..(MaxNodes - NodeCount(state)) : \A panel \in TreesOfSize(k) :
          AddChild(panel) =>
              /\ Len(state'.children) = Len(state.children) + 1
              /\ SubSeq(state'.children, 1, Len(state.children)) = state.children
              /\ state'.children[Len(state'.children)] = panel
              /\ state'.panel_name = state.panel_name
              /\ state'.info = state.info]_vars

\* C11 witness: add_child has given a Split with one size a second, different
\* child, which breaks the sizes-length invariant of the node.
C11_Witness ==
    /\ state.info.kind = "stack"
    /\ Len(state.children) = 2
    /\ state.children[1] # state.children[2]
    /\ ~ValidNode(state)

\* C12: the axis encoding round-trips.  DockItemInfo::stack stores Horizontal
\* as 0 and Vertical as 1, reconstruction reads 0 as Horizontal and 1 as
\* Vertical, so the Split built from a Stack made by stack(sizes, a) has axis a.
C12_AxisRoundTrips ==
    /\ \A sizes \in {<<>>, <<10>>, <<10, 20>>} :
           /\ stack(sizes, "Horizontal").axis = 0
           /\ stack(sizes, "Vertical").axis = 1
    /\ (item.item # None /\ state.info.kind = "stack") =>
           /\ state.info.axis = 0 => item.item[1].axis = "Horizontal"
           /\ state.info.axis = 1 => item.item[1].axis = "Vertical"
           /\ \A a \in Axis :
                  state.info = stack(state.info.sizes, a) => item.item[1].axis = a

\* C12 witness: a Stack encoded with axis 1 has been reconstructed as a
\* Vertical Split.
C12_Witness ==
    /\ item.item # None
    /\ state.info = stack(<<10, 20>>, "Vertical")
    /\ item.item[1].kind = "Split"
    /\ item.item[1].axis = "Vertical"

\* Path p lies in a subtree to the left of the subtree that holds path q.
LeftOf(p, q) ==
    \E k \in 1..Min({Len(p), Len(q)}) :
        /\ SubSeq(p, 1, k - 1) = SubSeq(q, 1, k - 1)
        /\ p[k] < q[k]

IsCompose(e) == e.op \notin {"get", "factory"}

\* C20: reconstruction is pre-order with post-order composition.  A node's
\* registry lookup comes right before its factory call, its factory is called
\* before anything is done for a descendant, the children are reconstructed
\* left to right, and a node is composed after all of its children have been
\* composed; a returned item has looked up, built and composed every node once.
C20_ReconstructionOrder ==
    LET log == item.log
    IN /\ \A i \in DOMAIN log :
              log[i].op = "factory" =>
                  /\ i > 1
                  /\ log[i - 1].op = "get"
                  /\ log[i - 1].path = log[i].path
       /\ \A i, j \in DOMAIN log :
              /\ (log[i].op = "factory" /\ IsAncestor(log[i].path, log[j].path)) => i < j
              /\ LeftOf(log[i].path, log[j].path) => i < j
              /\ (IsCompose(log[i]) /\ IsAncestor(log[i].path, log[j].path)) => j < i
              /\ (IsCompose(log[i]) /\ log[i].path = log[j].path) => j <= i
       /\ \A i \in DOMAIN log :
              IsCompose(log[i]) /\ log[i].op # "unreachable" =>
                  \A c \in DOMAIN NodeAt(state, log[i].path).children :
                      \E j \in 1..(i - 1) :
                          IsCompose(log[j]) /\ log[j].path = Append(log[i].path, c)
       /\ item.item # None =>
              /\ Len(log) = 3 * NodeCount(state)
              /\ \A q \in Paths(state) :
                     /\ \E i \in DOMAIN log : log[i].op = "get" /\ log[i].path = q
                     /\ \E i \in DOMAIN log : log[i].op = "factory" /\ log[i].path = q
                     /\ \E i \in DOMAIN log : IsCompose(log[i]) /\ log[i].path = q

\* C20 witness: a node with two children has been reconstructed.
C20_Witness ==
    /\ item.item # None
    /\ Len(state.children) = 2
    /\ Len(item.log) = 9

\* The step is a call of close_drawer, by the application or by a close
\* handler of the rendered drawer.
ClosesDrawer == CloseDrawer \/ OverlayMouseDown \/ CloseButtonClick

OpensDrawer == \E build \in DrawerBuilds : OpenDrawer(build)

\* The calls of the on_close listener among the calls of a handled event.
OnCloseCalls(h) == {i \in DOMAIN h.calls : h.calls[i].call = "on_close"}

\* C15: has_active_drawer is true exactly between an open_drawer and the next
\* close_drawer: open_drawer makes its drawer the one active drawer, replacing
\* an active one, close_drawer leaves none, and no other step changes it.
C15_DrawerActiveFromOpenToClose ==
    [][/\ \A build \in DrawerBuilds :
              OpenDrawer(build) => has_active_drawer' /\ active_drawer' = Some(build)
       /\ ClosesDrawer => ~has_active_drawer'
       /\ ~(OpensDrawer \/ ClosesDrawer) => active_drawer' = active_drawer
       /\ Len(active_drawer') <= 1]_vars

\* C15 witness: open_drawer was called while another drawer was active, and
\* its drawer is the active one.
C15_Witness ==
    /\ handled.event = "open_drawer"
    /\ handled.calls[1].active_drawer = Some("settings")
    /\ active_drawer = Some("help")
    /\ has_active_drawer

\* C16: has_active_modal is true exactly when some modal id has been opened
\* and not closed since: open_modal adds or replaces its id only, close_modal
\* removes its id only, close_all_modals leaves none, no other step changes
\* the active modals.
C16_ModalsActiveFromOpenToClose ==
    [][/\ \A id \in ModalIds, build \in ModalBuilds :
              OpenModal(id, build) =>
                  /\ DOMAIN active_modals' = DOMAIN active_modals \cup {id}
                  /\ active_modals'[id] = build
                  /\ \A k \in DOMAIN active_modals \ {id} : active_modals'[k] = active_modals[k]
       /\ \A id \in ModalIds :
              CloseModal(id) =>
                  /\ DOMAIN active_modals' = DOMAIN active_modals \ {id}
                  /\ \A k \in DOMAIN active_modals' : active_modals'[k] = active_modals[k]
       /\ CloseAllModals => ~has_active_modal'
       /\ ~(\/ \E id \in ModalIds, build \in ModalBuilds : OpenModal(id, build)
            \/ \E id \in ModalIds : CloseModal(id)
            \/ CloseAllModals) => active_modals' = active_modals
       /\ has_active_modal' <=> DOMAIN active_modals' # {}]_vars

\* C16 witness: close_modal has been called and a modal with a larger id is
\* still active.
C16_Witness ==
    /\ handled.event = "close_modal"
    /\ DOMAIN active_modals = {MaxModals}
    /\ has_active_modal

\* C17: when a drawer or a modal is closed, the focus goes back to the view
\* that was focused when that drawer or modal was opened, whatever else is
\* open.
C17_FocusGoesBackToOpener ==
    [][/\ (/\ active_drawer # None
           /\ active_drawer' = None
           /\ active_modals' = active_modals
           /\ opened_from.drawer[1] # None) => focused' = opened_from.drawer[1]
       /\ \A id \in DOMAIN active_modals :
              (/\ DOMAIN active_modals' = DOMAIN active_modals \ {id}
               /\ active_drawer' = active_drawer
               /\ opened_from.modals[id] # None) => focused' = opened_from.modals[id]]_vars

\* C18: in the rendered modal layer at most one modal has its overlay
\* visible, namely the first in render order that has an overlay; every modal
\* after that one is rendered with overlay_visible false.
C18_OneVisibleOverlay ==
    render_modal_layer # None =>
        LET modals == render_modal_layer[1]
            with_overlay == {i \in DOMAIN modals : Modal_has_overlay(modals[i])}
            visible == {i \in with_overlay : modals[i].overlay_visible}
        IN /\ Len(modals) = Cardinality(DOMAIN active_modals)
           /\ \A i, j \in DOMAIN modals : i < j => modals[i].id < modals[j].id
           /\ Cardinality(visible) <= 1
           /\ with_overlay # {} => visible = {Min(with_overlay)}
           /\ \A i \in DOMAIN modals :
                  (\E j \in with_overlay : j < i) => ~modals[i].overlay_visible

\* C18 witness: two modals with an overlay are active, and the second is
\* rendered with its overlay hidden.
C18_Witness ==
    /\ Cardinality(DOMAIN active_modals) >= 2
    /\ \A id \in DOMAIN active_modals : active_modals[id].overlay
    /\ render_modal_layer[1][1].overlay_visible
    /\ ~render_modal_layer[1][2].overlay_visible

\* C19 as stated: every step in which the active drawer becomes inactive has
\* invoked the on_close listener exactly once, while the drawer was active.
C19_ListenerObservesEveryClose ==
    [][(active_drawer # None /\ active_drawer' = None) =>
           /\ Cardinality(OnCloseCalls(handled')) = 1
           /\ \A i \in OnCloseCalls(handled') :
                  handled'.calls[i].active_drawer = active_drawer]_vars

\* C19, amended: a left mouse-down on the overlay and a click on the close
\* button of the active drawer invoke the on_close listener exactly once,
\* while the drawer is still active, and then remove the drawer; a call of
\* close_drawer or open_drawer by the application does not invoke the listener.
C19_ListenerObservesHandlerCloses ==
    [][/\ (OverlayMouseDown \/ CloseButtonClick) =>
              /\ Cardinality(OnCloseCalls(handled')) = 1
              /\ \A i \in OnCloseCalls(handled') :
                     /\ handled'.calls[i].active_drawer = active_drawer
                     /\ handled'.calls[i].active_drawer # None
                     /\ \E j \in DOMAIN handled'.calls :
                            i < j /\ handled'.calls[j].call = "close_drawer"
              /\ active_drawer' = None
       /\ (CloseDrawer \/ OpensDrawer) => OnCloseCalls(handled') = {}]_vars

\* C19 witness: the overlay of an active drawer has been clicked, the
\* listener has been told and the drawer is gone.
C19_Witness ==
    /\ handled.event = "overlay_mouse_down"
    /\ handled.calls[1] = Call("on_close", Some("settings"))
    /\ ~has_active_drawer

\* C13: at most one popover window is open at any time, however the spawned
\* window-opening tasks interleave with later opens and closes.
C13_AtMostOnePopoverWindow == Cardinality(windows) <= 1

\* C14: once a mouse-down in the parent window or a DismissEvent has closed
\* the popover, no popover window is open and no window id is recorded until
\* the popover is requested again, also when the window-opening task of the
\* request had not run yet.
C14_DismissedStaysClosed ==
    last_input \in {"parent_mouse_down", "dismiss_event"} =>
        windows = {} /\ window_id = None

\* C21: every factory call of a reconstruction is given the layout info of
\* the node it is called for and the dock area that was passed to the root
\* call, at every depth.
C21_FactoryGetsOwnInfoAndDockArea ==
    [][\A d \in Workspaces :
          ToItem(d) =>
              \A i \in DOMAIN item'.log :
                  item'.log[i].op = "factory" =>
                      /\ item'.log[i].view.info = NodeAt(state, item'.log[i].path).info
                      /\ item'.log[i].view.dock_area = d]_vars

\* C21 witness: the layout has been reconstructed for the second workspace,
\* and the factory of a child whose info differs from its parent's has run.
C21_Witness ==
    \E i \in DOMAIN item.log :
        /\ item.log[i].op = "factory"
        /\ Len(item.log[i].path) = 1
        /\ item.log[i].view.dock_area = "side_dock_area"
        /\ item.log[i].view.info # state.info
        /\ item.log[i].view.info # tabs(0)

\* The entries of a log that are a failure: the lookup of a name that is not
\* registered, and the composition of a node of no known kind.
Offending(log, items) ==
    {i \in DOMAIN log :
        \/ log[i].op = "get" /\ log[i].panel_name \notin DOMAIN items
        \/ log[i].op = "unreachable"}

\* C22: a reconstruction ends in one of two ways.  It returns an item, having
\* called exactly one factory per node of the layout, or it fails at the
\* first lookup or composition that cannot be done, with no item built and
\* nothing done after the failure; no node is looked up, built or composed
\* twice.
C22_CompletesOrFailsAtFirstOffence ==
    [][\A d \in Workspaces :
          ToItem(d) =>
              LET log == item'.log
              IN /\ (item'.item = None) <=> (item'.panic # None)
                 /\ \A i, j \in DOMAIN log :
                        (i # j /\ log[i].path = log[j].path) =>
                            /\ ~(IsCompose(log[i]) /\ IsCompose(log[j]))
                            /\ log[i].op # log[j].op
                 /\ \A i \in DOMAIN log : log[i].path \in Paths(state)
                 /\ item'.item # None =>
                        /\ Cardinality({i \in DOMAIN log : log[i].op = "factory"})
                               = NodeCount(state)
                        /\ FactoryPaths(log) = Paths(state)
                        /\ Offending(log, registry) = {}
                 /\ item'.panic # None => Offending(log, registry) = {Len(log)}]_vars

\* C22 witness: a reconstruction has failed at a child after the factory of
\* the root had run.
C22_Witness ==
    /\ item.panic # None
    /\ item.item = None
    /\ Len(item.log) = 3
    /\ FactoryPaths(item.log) = {<<>>}

\* C23: a register_panel call that fails leaves the registry as it was
\* before the call.
C23_FailedRegistrationChangesNothing ==
    [][\A n \in Names, f \in Factories :
          (register_panel(n, f) /\ regResult' = "panic") => registry' = registry]_vars

\* Index ix is the position of a clickable item of the menu.
IsClickableAt(ix) ==
    VecGet(menu_items, ix) # None /\ is_clickable(VecGet(menu_items, ix)[1])

\* C24: from no selection or from a clickable item, SelectNext in a menu that
\* has a clickable item puts the selection on a clickable item, never on a
\* separator and never outside the menu.
C24_SelectNextLandsOnClickable ==
    [][(/\ select_next
        /\ clickable_menu_items(menu_items) # {}
        /\ selected_index = None \/ IsClickableAt(selected_index[1]))
           => (/\ menu_result' # "panic"
               /\ selected_index' # None
               /\ IsClickableAt(selected_index'[1]))]_vars

\* C25: in a menu with count > 0 clickable items, SelectPrev on a selected
\* index does not underflow and yields an index in [0, count): the previous
\* index when the old one is greater than 0, the last one from index 0.
C25_SelectPrevStaysInRange ==
    [][LET count == Cardinality(clickable_menu_items(menu_items))
       IN (select_prev /\ count > 0 /\ selected_index # None)
              => (/\ menu_result' # "panic"
                  /\ selected_index'[1] \in 0..(count - 1)
                  /\ selected_index[1] > 0 => selected_index'[1] = selected_index[1] - 1
                  /\ selected_index[1] = 0 => selected_index'[1] = count - 1)]_vars

====
